---- MODULE Spec2Model ----
(***************************************************************************)
(* A model of galactic.context.memory: a MemoryContext couples a           *)
(* MemoryModel (ordered attributes, each a name and a type) with a         *)
(* MemoryPopulation (ordered individuals, each an identifier and a mapping *)
(* from attribute names to values).  Model mutations cascade into the      *)
(* values of every individual; population mutations are checked against    *)
(* the model.                                                              *)
(***************************************************************************)
EXTENDS Integers, Sequences, FiniteSets, TLC

VARIABLES
    model,        \* MemoryModel._attributes: the attributes in order
    population,   \* MemoryPopulation._individuals: the individuals in order
    last,         \* the call that returned last: its arguments (the names
                  \* and the items of the values it was given), whether
                  \* its key was present before it, the exception it raised
                  \* and the number of MemoryAttribute objects it created
    contexts,     \* two MemoryContext objects: the model and the population
                  \* of each
    categories,   \* the classes made by category(): the items of each
    instances,    \* Category._instances: the instances by index
    returned,     \* the last call of category() or of a category class
    declared,     \* the classes made by imprecise_category(): the cache
                  \* flag of each
    caches,       \* the _instances of each imprecise category class
    objects,      \* the imprecise category objects created so far; an
                  \* object is known by its place in this sequence
    made,         \* the last call that returned an imprecise category
    lhs,          \* the left operand of an operator of imprecise categories
    rhs,          \* the right operand
    out,          \* the operator applied last and its result
    numberType,   \* the class of imprecise numbers the caller works with
    ia,           \* an imprecise number: its lower and its upper bound
    ib,           \* a second imprecise number
    iout,         \* the call on imprecise numbers that returned last
    running,      \* the call on the model that has not returned yet, and
                  \* the number of individuals it has updated so far
    held          \* a reference to an individual or to an attribute that
                  \* the caller took from a context and kept

contextVars == <<model, population, last>>
pairVars == <<contexts>>
categoryVars == <<categories, instances, returned>>
impreciseVars == <<declared, caches, objects, made>>
algebraVars == <<lhs, rhs, out>>
intervalVars == <<numberType, ia, ib, iout>>
cascadeVars == <<running>>
memberVars == <<held>>

vars == <<contextVars, pairVars, categoryVars, impreciseVars, algebraVars,
          intervalVars, cascadeVars, memberVars>>

\* the variables the calls on the single context leave alone
exceptContext == <<pairVars, categoryVars, impreciseVars, algebraVars,
    intervalVars, cascadeVars, memberVars>>

\* the variables the calls on the two contexts leave alone
exceptPair == <<contextVars, categoryVars, impreciseVars, algebraVars,
    intervalVars, cascadeVars, memberVars>>

\* the variables the calls on the category classes leave alone
exceptCategory == <<contextVars, pairVars, impreciseVars, algebraVars,
    intervalVars, cascadeVars, memberVars>>

\* the variables the calls on the imprecise category classes leave alone
exceptImprecise == <<contextVars, pairVars, categoryVars, algebraVars,
    intervalVars, cascadeVars, memberVars>>

\* the variables the calls on imprecise numbers leave alone
exceptInterval == <<contextVars, pairVars, categoryVars, impreciseVars,
    algebraVars, cascadeVars, memberVars>>

\* the variables a call on the model leaves alone while it runs
exceptCascade == <<pairVars, categoryVars, impreciseVars, algebraVars,
    intervalVars, memberVars>>

\* the variables the calls on two contexts and on a kept reference leave
\* alone
exceptMember == <<contextVars, categoryVars, impreciseVars, algebraVars,
    intervalVars, cascadeVars>>

\* the variables the operators of imprecise categories leave alone
exceptAlgebra == <<contextVars, pairVars, categoryVars, impreciseVars,
    intervalVars, cascadeVars, memberVars>>

(***************************************************************************)
(* Bounds of the exploration.                                              *)
(***************************************************************************)
\* longest mapping of partial values handed to MemoryPopulation.__setitem__
MaxPartial == 2

\* most stored values (attributes times individuals) the callers build up
MaxCells == 2

\* attribute names and individual identifiers used by the callers
Names == {"a", "b"}
Identifiers == {"x", "y"}

\* the attribute types used by the callers (python classes)
Types == {"bool", "int", "float", "list"}

(***************************************************************************)
(* Python values.  A value is its class and its repr.                      *)
(***************************************************************************)
Val(t, r) == [ty |-> t, v |-> r]

\* the objects callers pass as values of an individual: float('inf') is a
\* float, converts to bool and raises OverflowError as an int and TypeError
\* as a list; '' converts to bool and to list and raises ValueError as an
\* int and as a float
InputValues ==
    { Val("float", "inf"), Val("str", "''") }

NoValue == Val("NoneType", "None")

Ok(val) == [exc |-> "none", val |-> val]
Raise(e) == [exc |-> e, val |-> NoValue]

\* cls(): the default value of a type
Default(cls) ==
    CASE cls = "bool"  -> Val("bool", "False")
      [] cls = "int"   -> Val("int", "0")
      [] cls = "float" -> Val("float", "0.0")
      [] cls = "list"  -> Val("list", "[]")

\* truth value of a python object
Truthy(val) == val.v \notin {"False", "0", "0.0", "[]", "''"}

\* cls(value): conversion of one argument, or the exception python raises
\* (the only str is the empty one, the only float int() refuses is inf)
Construct(cls, val) ==
    CASE cls = "bool" ->
           Ok(Val("bool", IF Truthy(val) THEN "True" ELSE "False"))
      [] cls = "int" ->
           CASE val.ty \in {"bool", "int"} ->
                  Ok(Val("int", IF Truthy(val) THEN "1" ELSE "0"))
             [] val.ty = "float" ->
                  IF val.v = "inf" THEN Raise("OverflowError")
                  ELSE Ok(Val("int", IF Truthy(val) THEN "1" ELSE "0"))
             [] val.ty = "str" -> Raise("ValueError")
             [] OTHER -> Raise("TypeError")
      [] cls = "float" ->
           CASE val.ty \in {"bool", "int"} ->
                  Ok(Val("float", IF Truthy(val) THEN "1.0" ELSE "0.0"))
             [] val.ty = "float" -> Ok(val)
             [] val.ty = "str" -> Raise("ValueError")
             [] OTHER -> Raise("TypeError")
      [] cls = "list" ->
           CASE val.ty = "list" -> Ok(val)
             [] val.ty = "str" -> Ok(Val("list", "[]"))
             [] OTHER -> Raise("TypeError")

\* isinstance(value, cls); bool is a subclass of int
IsInstance(val, cls) ==
    \/ val.ty = cls
    \/ val.ty = "bool" /\ cls = "int"

(***************************************************************************)
(* Reading the model and the population.                                   *)
(***************************************************************************)
AttributeNames(m) == { m[i].name : i \in 1..Len(m) }

IndexOfName(m, name) == CHOOSE i \in 1..Len(m) : m[i].name = name

TypeOf(m, name) == m[IndexOfName(m, name)].type

IdentifiersOf(p) == { p[i].identifier : i \in 1..Len(p) }

IndexOfIdentifier(p, identifier) ==
    CHOOSE i \in 1..Len(p) : p[i].identifier = identifier

ValuesOf(p, identifier) == p[IndexOfIdentifier(p, identifier)].values

RemoveAt(s, i) == SubSeq(s, 1, i - 1) \o SubSeq(s, i + 1, Len(s))

\* a function without one key
Without(f, k) == [n \in DOMAIN f \ {k} |-> f[n]]

\* a function with one key set
With(f, k, val) == [n \in DOMAIN f \cup {k} |-> IF n = k THEN val ELSE f[n]]

(***************************************************************************)
(* MemoryIndividual                                                        *)
(***************************************************************************)
\* an individual created without the defaults of the attributes
NewIndividualNoDefaults(m, identifier) ==
    [identifier |-> identifier, values |-> [n \in {} |-> Default("bool")]]

\* MemoryIndividual.__init__: the default of every attribute of the model
NewIndividual(m, identifier) ==
    [identifier |-> identifier,
     values |-> [n \in AttributeNames(m) |-> Default(TypeOf(m, n))]]

\* MemoryIndividual.__setitem__ that stores a value under a name the model
\* does not have
IndividualSetItemAutoCreate(m, values, name, val) ==
    IF name \notin AttributeNames(m)
    THEN [exc |-> "none", values |-> With(values, name, val)]
    ELSE IF IsInstance(val, TypeOf(m, name))
         THEN [exc |-> "none", values |-> With(values, name, val)]
         ELSE LET r == Construct(TypeOf(m, name), val)
              IN  IF r.exc # "none"
                  THEN [exc |-> r.exc, values |-> values]
                  ELSE [exc |-> "none", values |-> With(values, name, r.val)]

\* MemoryIndividual.__setitem__ on the values of one individual
IndividualSetItem(m, values, name, val) ==
    IF name \notin AttributeNames(m)
    THEN [exc |-> "KeyError", values |-> values]
    ELSE IF IsInstance(val, TypeOf(m, name))
         THEN [exc |-> "none", values |-> With(values, name, val)]
         ELSE LET r == Construct(TypeOf(m, name), val)
              IN  IF r.exc # "none"
                  THEN [exc |-> r.exc, values |-> values]
                  ELSE [exc |-> "none", values |-> With(values, name, r.val)]

\* ValuesHolder.__getitem__: individual[name]
IndividualGetItem(values, name) ==
    IF name \in DOMAIN values THEN Ok(values[name]) ELSE Raise("KeyError")

\* MemoryIndividual.__delitem__ without the test of the model
IndividualDelItemNoModelTest(m, values, name) ==
    IF name \notin DOMAIN values
    THEN [exc |-> "KeyError", values |-> values]
    ELSE [exc |-> "none", values |-> Without(values, name)]

\* MemoryIndividual.__delitem__ on the values of one individual
IndividualDelItem(m, values, name) ==
    IF name \in AttributeNames(m)
    THEN [exc |-> "ValueError", values |-> values]
    ELSE IF name \notin DOMAIN values
         THEN [exc |-> "KeyError", values |-> values]
         ELSE [exc |-> "none", values |-> Without(values, name)]

(***************************************************************************)
(* MemoryModel.__setitem__                                                 *)
(***************************************************************************)
\* one turn of the retype loop for one individual: the try and its except
RetypeOne(m, values, name, cls) ==
    LET c == Construct(cls, values[name])
        r == IF c.exc = "none"
             THEN IndividualSetItem(m, values, name, c.val)
             ELSE [exc |-> c.exc, values |-> values]
    IN  IF r.exc \in {"ValueError", "TypeError"}
        THEN IndividualSetItem(m, values, name, Default(cls))
        ELSE r

\* the retype loop from individual i on; an exception that is not caught
\* leaves the loop
RECURSIVE RetypeFrom(_, _, _, _, _)
RetypeFrom(m, p, name, cls, i) ==
    IF i > Len(p)
    THEN [exc |-> "none", population |-> p]
    ELSE LET r == RetypeOne(m, p[i].values, name, cls)
         IN  IF r.exc # "none"
             THEN [exc |-> r.exc, population |-> p]
             ELSE RetypeFrom(m, [p EXCEPT ![i].values = r.values],
                             name, cls, i + 1)

\* the loop of a new attribute from individual i on
RECURSIVE AddFrom(_, _, _, _, _)
AddFrom(m, p, name, cls, i) ==
    IF i > Len(p)
    THEN [exc |-> "none", population |-> p]
    ELSE LET r == IndividualSetItem(m, p[i].values, name, Default(cls))
         IN  IF r.exc # "none"
             THEN [exc |-> r.exc, population |-> p]
             ELSE AddFrom(m, [p EXCEPT ![i].values = r.values],
                          name, cls, i + 1)

\* a new attribute put first instead of last
ReplaceAttributeFirst(m, name, cls) ==
    IF name \in AttributeNames(m)
    THEN [m EXCEPT ![IndexOfName(m, name)] = [name |-> name, type |-> cls]]
    ELSE <<[name |-> name, type |-> cls]>> \o m

\* the model after AttributesHolder.__setitem__(name, MemoryAttribute(...))
ReplaceAttribute(m, name, cls) ==
    IF name \in AttributeNames(m)
    THEN [m EXCEPT ![IndexOfName(m, name)] = [name |-> name, type |-> cls]]
    ELSE Append(m, [name |-> name, type |-> cls])

\* MemoryModel.__setitem__ without the comparison of the types: an existing
\* attribute is always replaced and its values converted
ModelSetItemResultNoTypeTest(m, p, name, cls) ==
    LET m2 == ReplaceAttribute(m, name, cls)
        r == IF name \in AttributeNames(m)
             THEN RetypeFrom(m2, p, name, cls, 1)
             ELSE AddFrom(m2, p, name, cls, 1)
    IN  [model |-> m2, population |-> r.population,
         exc |-> r.exc, created |-> 1]

\* MemoryModel.__setitem__(name, cls): the model, the population, the
\* exception and the number of MemoryAttribute objects it creates
ModelSetItemResult(m, p, name, cls) ==
    IF name \in AttributeNames(m)
    THEN IF TypeOf(m, name) # cls
         THEN LET m2 == ReplaceAttribute(m, name, cls)
                  r == RetypeFrom(m2, p, name, cls, 1)
              IN  [model |-> m2, population |-> r.population,
                   exc |-> r.exc, created |-> 1]
         ELSE [model |-> m, population |-> p, exc |-> "none", created |-> 0]
    ELSE LET m2 == ReplaceAttribute(m, name, cls)
             r == AddFrom(m2, p, name, cls, 1)
         IN  [model |-> m2, population |-> r.population,
              exc |-> r.exc, created |-> 1]

ModelSetItem(name, cls) ==
    LET r == ModelSetItemResult(model, population, name, cls)
    IN  /\ \/ name \in AttributeNames(model)
           \/ (Len(model) + 1) * Len(population) <= MaxCells
        /\ model' = r.model
        /\ population' = r.population
        /\ last' = [op |-> "Model.__setitem__", key |-> name, cls |-> cls,
                    names |-> <<>>, items |-> <<>>,
                    existed |-> name \in AttributeNames(model),
                    exc |-> r.exc, created |-> r.created]
        /\ UNCHANGED exceptContext

(***************************************************************************)
(* MemoryModel.__delitem__                                                 *)
(***************************************************************************)
RECURSIVE DeleteFrom(_, _, _, _)
DeleteFrom(m, p, name, i) ==
    IF i > Len(p)
    THEN [exc |-> "none", population |-> p]
    ELSE LET r == IndividualDelItem(m, p[i].values, name)
         IN  IF r.exc # "none"
             THEN [exc |-> r.exc, population |-> p]
             ELSE DeleteFrom(m, [p EXCEPT ![i].values = r.values], name, i + 1)

\* MemoryModel.__delitem__ without the loop over the population
ModelDelItemResultNoCascade(m, p, name) ==
    IF name \notin AttributeNames(m)
    THEN [model |-> m, population |-> p, exc |-> "KeyError"]
    ELSE [model |-> RemoveAt(m, IndexOfName(m, name)), population |-> p,
          exc |-> "none"]

\* MemoryModel.__delitem__(name): the model, the population, the exception
ModelDelItemResult(m, p, name) ==
    IF name \notin AttributeNames(m)
    THEN [model |-> m, population |-> p, exc |-> "KeyError"]
    ELSE LET m2 == RemoveAt(m, IndexOfName(m, name))
             r == DeleteFrom(m2, p, name, 1)
         IN  [model |-> m2, population |-> r.population, exc |-> r.exc]

ModelDelItem(name) ==
    LET r == ModelDelItemResult(model, population, name)
    IN  /\ model' = r.model
        /\ population' = r.population
        /\ last' = [op |-> "Model.__delitem__", key |-> name, cls |-> "",
                    names |-> <<>>, items |-> <<>>,
                    existed |-> name \in AttributeNames(model),
                    exc |-> r.exc, created |-> 0]
        /\ UNCHANGED exceptContext

(***************************************************************************)
(* MemoryPopulation.__setitem__ and __delitem__                            *)
(***************************************************************************)
\* the mappings of partial values: sequences of (name, value) items with
\* distinct names, in iteration order
PartialValues ==
    { pv \in UNION { [1..n -> [name : Names, value : InputValues]]
                     : n \in 0..MaxPartial } :
        \A i, j \in 1..Len(pv) : pv[i].name = pv[j].name => i = j }

NamesOf(pv) == [i \in 1..Len(pv) |-> pv[i].name]

\* the loop over values.items() from item i on
RECURSIVE ApplyFrom(_, _, _, _)
ApplyFrom(m, values, pv, i) ==
    IF i > Len(pv)
    THEN [exc |-> "none", values |-> values]
    ELSE IF pv[i].name \notin AttributeNames(m)
         THEN [exc |-> "KeyError", values |-> values]
         ELSE LET r == IndividualSetItem(m, values, pv[i].name, pv[i].value)
              IN  IF r.exc # "none"
                  THEN r
                  ELSE ApplyFrom(m, r.values, pv, i + 1)

\* MemoryPopulation.__setitem__ that creates the individual before it looks
\* at the items, also when the identifier is in the population
PopulationSetItemResultRecreate(m, p, identifier, pv) ==
    LET p2 == IF identifier \in IdentifiersOf(p)
              THEN [p EXCEPT ![IndexOfIdentifier(p, identifier)] =
                                    NewIndividual(m, identifier)]
              ELSE Append(p, NewIndividual(m, identifier))
        i == IndexOfIdentifier(p2, identifier)
        r == ApplyFrom(m, p2[i].values, pv, 1)
    IN  [population |-> [p2 EXCEPT ![i].values = r.values], exc |-> r.exc]

\* MemoryPopulation.__setitem__ that takes an individual of the population
\* out of its place and puts it last
PopulationSetItemResultMoveLast(m, p, identifier, pv) ==
    LET p2 == IF identifier \in IdentifiersOf(p)
              THEN RemoveAt(p, IndexOfIdentifier(p, identifier))
                     \o <<p[IndexOfIdentifier(p, identifier)]>>
              ELSE Append(p, NewIndividual(m, identifier))
        i == IndexOfIdentifier(p2, identifier)
        r == ApplyFrom(m, p2[i].values, pv, 1)
    IN  [population |-> [p2 EXCEPT ![i].values = r.values], exc |-> r.exc]

\* MemoryPopulation.__setitem__(identifier, values): the population and the
\* exception
PopulationSetItemResult(m, p, identifier, pv) ==
    LET p2 == IF identifier \in IdentifiersOf(p)
              THEN p
              ELSE Append(p, NewIndividual(m, identifier))
        i == IndexOfIdentifier(p2, identifier)
        r == ApplyFrom(m, p2[i].values, pv, 1)
    IN  [population |-> [p2 EXCEPT ![i].values = r.values], exc |-> r.exc]

PopulationSetItem(identifier, pv) ==
    LET r == PopulationSetItemResult(model, population, identifier, pv)
    IN  /\ \/ identifier \in IdentifiersOf(population)
           \/ Len(model) * (Len(population) + 1) <= MaxCells
        /\ population' = r.population
        /\ last' = [op |-> "Population.__setitem__", key |-> identifier,
                    cls |-> "", names |-> NamesOf(pv), items |-> pv,
                    existed |-> identifier \in IdentifiersOf(population),
                    exc |-> r.exc, created |-> 0]
        /\ UNCHANGED <<model, exceptContext>>

\* IndividualsHolder.__delitem__
PopulationDelItemResult(p, identifier) ==
    IF identifier \notin IdentifiersOf(p)
    THEN [population |-> p, exc |-> "KeyError"]
    ELSE [population |-> RemoveAt(p, IndexOfIdentifier(p, identifier)),
          exc |-> "none"]

PopulationDelItem(identifier) ==
    LET r == PopulationDelItemResult(population, identifier)
    IN  /\ population' = r.population
        /\ last' = [op |-> "Population.__delitem__", key |-> identifier,
                    cls |-> "", names |-> <<>>, items |-> <<>>,
                    existed |-> identifier \in IdentifiersOf(population),
                    exc |-> r.exc, created |-> 0]
        /\ UNCHANGED <<model, exceptContext>>

(***************************************************************************)
(* Calls on one individual of the population and on one attribute of the   *)
(* model: individual[name] = value, del individual[name] and               *)
(* attribute[identifier] = value.                                          *)
(***************************************************************************)
\* population[identifier][name] = value
IndividualSet(identifier, name, val) ==
    /\ identifier \in IdentifiersOf(population)
    /\ LET i == IndexOfIdentifier(population, identifier)
           r == IndividualSetItem(model, population[i].values, name, val)
       IN  /\ population' = [population EXCEPT ![i].values = r.values]
           /\ last' = [op |-> "Individual.__setitem__", key |-> identifier,
                       cls |-> "", names |-> <<name>>,
                       items |-> <<[name |-> name, value |-> val]>>,
                       existed |-> TRUE, exc |-> r.exc, created |-> 0]
    /\ UNCHANGED <<model, exceptContext>>

\* del population[identifier][name]
IndividualDel(identifier, name) ==
    /\ identifier \in IdentifiersOf(population)
    /\ LET i == IndexOfIdentifier(population, identifier)
           r == IndividualDelItem(model, population[i].values, name)
       IN  /\ population' = [population EXCEPT ![i].values = r.values]
           /\ last' = [op |-> "Individual.__delitem__", key |-> identifier,
                       cls |-> "", names |-> <<name>>, items |-> <<>>,
                       existed |-> TRUE, exc |-> r.exc, created |-> 0]
    /\ UNCHANGED <<model, exceptContext>>

\* MemoryAttribute.__setitem__(identifier, value) of the attribute name:
\* self.population[identifier] raises KeyError for an unknown identifier
AttributeSetItemResult(m, p, name, identifier, val) ==
    IF identifier \notin IdentifiersOf(p)
    THEN [population |-> p, exc |-> "KeyError"]
    ELSE LET i == IndexOfIdentifier(p, identifier)
             r == IndividualSetItem(m, p[i].values, name, val)
         IN  [population |-> [p EXCEPT ![i].values = r.values], exc |-> r.exc]

\* model[name][identifier] = value
AttributeSetItem(name, identifier, val) ==
    /\ name \in AttributeNames(model)
    /\ LET r == AttributeSetItemResult(model, population, name, identifier, val)
       IN  /\ population' = r.population
           /\ last' = [op |-> "Attribute.__setitem__", key |-> identifier,
                       cls |-> "", names |-> <<name>>,
                       items |-> <<[name |-> name, value |-> val]>>,
                       existed |-> identifier \in IdentifiersOf(population),
                       exc |-> r.exc, created |-> 0]
    /\ UNCHANGED <<model, exceptContext>>

(***************************************************************************)
(* Two contexts and the equality of their elements.  An element is seen    *)
(* through what its __eq__ reads: its identifier or name, and its context  *)
(* (the context of the population or of the model that created it).        *)
(***************************************************************************)
ContextIds == {1, 2}

\* the types and the partial values used by the callers of the two contexts
PairTypes == {"bool", "int"}

\* population[identifier] of a context: identifier and context properties
IndividualOf(c, i) ==
    [identifier |-> contexts[c].population[i].identifier, context |-> c]

\* model[name] of a context: name and context properties
AttributeOf(c, i) ==
    [name |-> contexts[c].model[i].name, context |-> c]

\* two contexts compared by what they hold
ContextEqByContent(c1, c2) == contexts[c1] = contexts[c2]

\* context == context: Context defines no __eq__, python compares the objects
ContextEq(c1, c2) == c1 = c2

\* Individual.__eq__
IndividualEq(x, y) ==
    x.identifier = y.identifier /\ ContextEq(x.context, y.context)

\* Attribute.__eq__
AttributeEq(a, b) ==
    a.name = b.name /\ ContextEq(a.context, b.context)

\* MemoryContext() twice
InitPair ==
    contexts = [c \in ContextIds |-> [model |-> <<>>, population |-> <<>>]]

\* contexts[c].model[name] = cls
PairModelSetItem(c, name, cls) ==
    LET r == ModelSetItemResult(contexts[c].model, contexts[c].population,
                                name, cls)
    IN  /\ contexts' = [contexts EXCEPT ![c] =
                [model |-> r.model, population |-> r.population]]
        /\ UNCHANGED exceptPair

\* del contexts[c].model[name]
PairModelDelItem(c, name) ==
    LET r == ModelDelItemResult(contexts[c].model, contexts[c].population,
                                name)
    IN  /\ contexts' = [contexts EXCEPT ![c] =
                [model |-> r.model, population |-> r.population]]
        /\ UNCHANGED exceptPair

\* contexts[c].population[identifier] = {}
PairPopulationSetItem(c, identifier) ==
    LET r == PopulationSetItemResult(contexts[c].model,
                                     contexts[c].population, identifier, <<>>)
    IN  /\ contexts' = [contexts EXCEPT ![c].population = r.population]
        /\ UNCHANGED exceptPair

\* del contexts[c].population[identifier]
PairPopulationDelItem(c, identifier) ==
    LET r == PopulationDelItemResult(contexts[c].population, identifier)
    IN  /\ contexts' = [contexts EXCEPT ![c].population = r.population]
        /\ UNCHANGED exceptPair

NextPair ==
    \/ \E c \in ContextIds, name \in Names, cls \in PairTypes :
            PairModelSetItem(c, name, cls)
    \/ \E c \in ContextIds, name \in Names : PairModelDelItem(c, name)
    \/ \E c \in ContextIds, identifier \in Identifiers :
            PairPopulationSetItem(c, identifier)
    \/ \E c \in ContextIds, identifier \in Identifiers :
            PairPopulationDelItem(c, identifier)

(***************************************************************************)
(* galactic.type.category: the classes made by category().  The classes    *)
(* do not define _instances of their own: the attribute they read and      *)
(* fill is the dictionary of the Category base class.                      *)
(***************************************************************************)
\* most items of the iterable handed to category()
MaxUniverse == 2

CategoryNames == {"Color", "Size"}
Items == {"R", "G", "B"}
None == "None"

\* the iterables handed to category(): distinct items in order
Universes ==
    { u \in UNION { [1..n -> Items] : n \in 0..MaxUniverse } :
        \A i, j \in 1..Len(u) : u[i] = u[j] => i = j }

ItemsOf(u) == { u[i] : i \in 1..Len(u) }

\* cls._items[item]: the index, from 0, of an item
IndexOfItem(u, item) == (CHOOSE i \in 1..Len(u) : u[i] = item) - 1

NoInstance == [type |-> None, item |-> None]

\* the empty dictionary
EmptyDict == [k \in {} |-> NoInstance]

\* the two loops of Category.__new__ and category(): an instance for each
\* item, by index
InstancesOf(name, u) ==
    [k \in 0..(Len(u) - 1) |-> [type |-> name, item |-> u[k + 1]]]

\* Category.__new__(cls, value): the dictionary, the exception and the
\* instance returned
CategoryNewResult(cats, inst, name, value) ==
    LET u == cats[name]
        filled == IF DOMAIN inst = {} THEN InstancesOf(name, u) ELSE inst
    IN  IF value \in ItemsOf(u)
        THEN IF IndexOfItem(u, value) \in DOMAIN filled
             THEN [instances |-> filled, exc |-> "none",
                   instance |-> filled[IndexOfItem(u, value)]]
             ELSE [instances |-> filled, exc |-> "KeyError",
                   instance |-> NoInstance]
        ELSE IF value = None
             THEN IF 0 \in DOMAIN filled
                  THEN [instances |-> filled, exc |-> "none",
                        instance |-> filled[0]]
                  ELSE [instances |-> filled, exc |-> "KeyError",
                        instance |-> NoInstance]
             ELSE [instances |-> filled, exc |-> "ValueError",
                   instance |-> NoInstance]

InitCategory ==
    /\ categories = [n \in {} |-> <<>>]
    /\ instances = EmptyDict
    /\ returned = [op |-> "import", cls |-> None, value |-> None,
                   exc |-> "none", instance |-> NoInstance]

\* category(name, iterable)
CategoryType(name, u) ==
    /\ name \notin DOMAIN categories
    /\ IF u = <<>>
       THEN /\ returned' = [op |-> "category", cls |-> name, value |-> None,
                            exc |-> "ValueError", instance |-> NoInstance]
            /\ UNCHANGED categories
       ELSE /\ returned' = [op |-> "category", cls |-> name, value |-> None,
                            exc |-> "none", instance |-> NoInstance]
            /\ categories' = With(categories, name, u)
    /\ UNCHANGED <<instances, exceptCategory>>

\* cls(value) and cls() for a class made by category()
CategoryNew(name, value) ==
    /\ name \in DOMAIN categories
    /\ LET r == CategoryNewResult(categories, instances, name, value)
       IN  /\ instances' = r.instances
           /\ returned' = [op |-> "Category.__new__", cls |-> name,
                           value |-> value, exc |-> r.exc,
                           instance |-> r.instance]
    /\ UNCHANGED <<categories, exceptCategory>>

NextCategory ==
    \/ \E name \in CategoryNames, u \in Universes : CategoryType(name, u)
    \/ \E name \in CategoryNames, value \in Items \cup {None} :
            CategoryNew(name, value)

(***************************************************************************)
(* galactic.type.category: the classes made by imprecise_category().  A    *)
(* value is a string of bits, one for each item of the class in order.     *)
(***************************************************************************)
\* bitstring.Bits: &, |, ^, ~ and the truth value (true when a bit is set)
BitsAnd(x, y) == [i \in 1..Len(x) |-> x[i] /\ y[i]]
BitsOr(x, y) == [i \in 1..Len(x) |-> x[i] \/ y[i]]
BitsXor(x, y) == [i \in 1..Len(x) |-> x[i] # y[i]]
BitsInvert(x) == [i \in 1..Len(x) |-> ~x[i]]

\* a truth value that is true for every string of bits that is not empty
BitsNotEmpty(x) == Len(x) > 0

BitsAny(x) == \E i \in 1..Len(x) : x[i]

\* Bits(length=n) and Bits([item in items for item in cls._items])
BitsZero(u) == [i \in 1..Len(u) |-> FALSE]
BitsOfItems(u, items) == [i \in 1..Len(u) |-> u[i] \in items]

\* ImpreciseCategory.__iter__: the items whose bit is set
Members(u, bits) == { u[i] : i \in { k \in 1..Len(u) : bits[k] } }

\* ImpreciseCategory.__le__, __ne__, __eq__, __lt__, __ge__, __gt__ on the
\* bits of two values of one class
CategoryLe(x, y) == ~BitsAny(BitsAnd(x, BitsInvert(y)))
CategoryNe(x, y) == x # y
CategoryEq(x, y) == ~CategoryNe(x, y)
CategoryLt(x, y) == CategoryLe(x, y) /\ CategoryNe(x, y)

CategoryGe(x, y) == ~BitsAny(BitsAnd(BitsInvert(x), y))
CategoryGt(x, y) == CategoryGe(x, y) /\ CategoryNe(x, y)

\* ImpreciseCategory.__and__, __or__, __sub__, __xor__: the bits handed to
\* _instance
CategoryAnd(x, y) == BitsAnd(x, y)
CategoryOr(x, y) == BitsOr(x, y)

\* a difference that keeps the right operand's bits
CategorySubNoInvert(x, y) == BitsAnd(x, y)

CategorySub(x, y) == BitsAnd(x, BitsInvert(y))
CategoryXor(x, y) == BitsXor(x, y)

\* ImpreciseCategory.__len__: self._bits.count(True)
CategoryLen(x) == Cardinality({ i \in 1..Len(x) : x[i] })

\* a test that looks for the bits of the left operand the right one lacks
CategoryIsDisjointAsLe(x, y) == ~BitsAny(BitsAnd(x, BitsInvert(y)))

\* ImpreciseCategory.isdisjoint on the bits of two values of one class
CategoryIsDisjoint(x, y) == ~BitsAny(BitsAnd(x, y))

\* ImpreciseCategory.issubset and issuperset with an iterable that is not
\* a value of the class: the iterable goes through type(self)(other)
CategoryIsSubset(u, x, other) == CategoryLe(x, BitsOfItems(u, other))
CategoryIsSuperset(u, x, other) == CategoryGe(x, BitsOfItems(u, other))

(***************************************************************************)
(* The instances of the imprecise category classes and their caches.       *)
(***************************************************************************)
\* most imprecise category objects the callers create
MaxObjects == 2

ImpreciseNames == {"Color", "Shade"}

\* the items of the classes the callers declare
CacheUniverse == <<"R">>

NoObject == 0

\* ImpreciseCategory._instance that never looks into the cache
InstanceResultNoLookup(decl, cch, objs, name, bits) ==
    LET id == Len(objs) + 1
    IN  [id |-> id, fresh |-> TRUE,
         objects |-> Append(objs, [type |-> name, bits |-> bits]),
         caches |-> IF decl[name]
                    THEN [cch EXCEPT ![name] = With(cch[name], bits, id)]
                    ELSE cch]

\* ImpreciseCategory._instance(cls, bits): the object returned, whether the
\* call created it, the objects and the caches
InstanceResult(decl, cch, objs, name, bits) ==
    IF bits \in DOMAIN cch[name]
    THEN [id |-> cch[name][bits], fresh |-> FALSE, objects |-> objs,
          caches |-> cch]
    ELSE LET id == Len(objs) + 1
         IN  [id |-> id, fresh |-> TRUE,
              objects |-> Append(objs, [type |-> name, bits |-> bits]),
              caches |-> IF decl[name]
                         THEN [cch EXCEPT ![name] = With(cch[name], bits, id)]
                         ELSE cch]

InitImprecise ==
    /\ declared = [n \in {} |-> FALSE]
    /\ caches = [n \in {} |-> [b \in {} |-> NoObject]]
    /\ objects = <<>>
    /\ made = [op |-> "import", type |-> None, id |-> NoObject,
               fresh |-> FALSE, exc |-> "none", right |-> None,
               value |-> None]

\* imprecise_category(name, CacheUniverse, cache=cache)
ImpreciseCategoryType(name, cache) ==
    /\ name \notin DOMAIN declared
    /\ declared' = With(declared, name, cache)
    /\ caches' = With(caches, name, [b \in {} |-> NoObject])
    /\ made' = [op |-> "imprecise_category", type |-> name, id |-> NoObject,
                fresh |-> FALSE, exc |-> "none", right |-> None,
                value |-> None]
    /\ UNCHANGED <<objects, exceptImprecise>>

\* the argument of an imprecise category class: absent or a collection of
\* items
ItemsArguments ==
    { [absent |-> TRUE, items |-> {}] }
    \cup { [absent |-> FALSE, items |-> c] :
             c \in SUBSET ItemsOf(CacheUniverse) }

\* cls(items) and cls() of an imprecise category class
ImpreciseNew(name, arg) ==
    /\ name \in DOMAIN declared
    /\ LET bits == IF arg.absent THEN BitsZero(CacheUniverse)
                   ELSE BitsOfItems(CacheUniverse, arg.items)
           r == InstanceResult(declared, caches, objects, name, bits)
       IN  /\ Len(r.objects) <= MaxObjects
           /\ objects' = r.objects
           /\ caches' = r.caches
           /\ made' = [op |-> "ImpreciseCategory.__new__", type |-> name,
                       id |-> r.id, fresh |-> r.fresh, exc |-> "none",
                       right |-> None, value |-> None]
    /\ UNCHANGED <<declared, exceptImprecise>>

\* the bits an operator hands to _instance
OperatorBits(op, x, y) ==
    CASE op = "__and__" -> CategoryAnd(x, y)
      [] op = "__or__"  -> CategoryOr(x, y)
      [] op = "__sub__" -> CategorySub(x, y)
      [] op = "__xor__" -> CategoryXor(x, y)

AlgebraOperators == {"__and__", "__or__", "__sub__", "__xor__"}

OrderOperators == {"__le__", "__lt__", "__eq__", "__ne__", "__ge__", "__gt__"}

\* the truth value a comparison returns
OrderResult(op, x, y) ==
    CASE op = "__le__" -> CategoryLe(x, y)
      [] op = "__lt__" -> CategoryLt(x, y)
      [] op = "__eq__" -> CategoryEq(x, y)
      [] op = "__ne__" -> CategoryNe(x, y)
      [] op = "__ge__" -> CategoryGe(x, y)
      [] op = "__gt__" -> CategoryGt(x, y)

\* the right operands of an operator: an object created so far, or the
\* string 'dummy'
RightOperands ==
    { [kind |-> "object", id |-> i] : i \in 1..MaxObjects }
    \cup { [kind |-> "str", id |-> NoObject] }

\* type(other).__name__
RightType(objs, b) == IF b.kind = "object" THEN objs[b.id].type ELSE b.kind

\* a test that accepts the values of every imprecise category class
IsInstanceOfAnyCategory(objs, a, b) == b.kind = "object"

\* isinstance(other, type(self))
IsInstanceOfSelf(objs, a, b) ==
    /\ b.kind = "object"
    /\ objs[b.id].type = objs[a].type

\* a & b, a | b, a - b, a ^ b for an object a: TypeError when b is not an
\* instance of the class of a
ImpreciseOperator(op, a, b) ==
    /\ a \in 1..Len(objects)
    /\ b.kind = "object" => b.id \in 1..Len(objects)
    /\ IF ~IsInstanceOfSelf(objects, a, b)
       THEN /\ made' = [op |-> op, type |-> objects[a].type, id |-> NoObject,
                        fresh |-> FALSE, exc |-> "TypeError",
                        right |-> RightType(objects, b), value |-> None]
            /\ UNCHANGED <<objects, caches>>
       ELSE LET r == InstanceResult(declared, caches, objects,
                         objects[a].type,
                         OperatorBits(op, objects[a].bits, objects[b.id].bits))
            IN  /\ Len(r.objects) <= MaxObjects
                /\ objects' = r.objects
                /\ caches' = r.caches
                /\ made' = [op |-> op, type |-> objects[a].type, id |-> r.id,
                            fresh |-> r.fresh, exc |-> "none",
                            right |-> RightType(objects, b), value |-> None]
    /\ UNCHANGED <<declared, exceptImprecise>>

\* a <= b, a < b, a == b, a != b, a >= b, a > b for an object a: TypeError
\* when b is not an instance of the class of a, a truth value otherwise
ImpreciseCompare(op, a, b) ==
    /\ a \in 1..Len(objects)
    /\ b.kind = "object" => b.id \in 1..Len(objects)
    /\ made' = IF ~IsInstanceOfSelf(objects, a, b)
               THEN [op |-> op, type |-> objects[a].type, id |-> NoObject,
                     fresh |-> FALSE, exc |-> "TypeError",
                     right |-> RightType(objects, b), value |-> None]
               ELSE [op |-> op, type |-> objects[a].type, id |-> NoObject,
                     fresh |-> FALSE, exc |-> "none",
                     right |-> RightType(objects, b),
                     value |-> OrderResult(op, objects[a].bits,
                                           objects[b.id].bits)]
    /\ UNCHANGED <<objects, caches, declared, exceptImprecise>>

NextImprecise ==
    \/ \E name \in ImpreciseNames, cache \in BOOLEAN :
            ImpreciseCategoryType(name, cache)
    \/ \E name \in ImpreciseNames, arg \in ItemsArguments :
            ImpreciseNew(name, arg)
    \/ \E op \in AlgebraOperators, a \in 1..MaxObjects, b \in RightOperands :
            ImpreciseOperator(op, a, b)
    \/ \E op \in OrderOperators, a \in 1..MaxObjects, b \in RightOperands :
            ImpreciseCompare(op, a, b)

(***************************************************************************)
(* The operators of imprecise categories on two values of one class.       *)
(***************************************************************************)
\* Color = imprecise_category('Color', ['R', 'G', 'B'])
AlgebraUniverse == <<"R", "G", "B">>

\* the values of the class: one for each set of items
AlgebraValues ==
    { BitsOfItems(AlgebraUniverse, items) :
        items \in SUBSET ItemsOf(AlgebraUniverse) }

\* no operator is applied
IdleAlgebra ==
    /\ lhs = <<>>
    /\ rhs = <<>>
    /\ out = [op |-> "none", value |-> <<>>]

\* lhs op rhs for an operator that returns a value of the class
ApplyOperator(op) ==
    /\ out' = [op |-> op, value |-> OperatorBits(op, lhs, rhs)]
    /\ UNCHANGED <<lhs, rhs, exceptAlgebra>>

\* lhs op rhs for a comparison
ApplyOrder(op) ==
    /\ out' = [op |-> op, value |-> OrderResult(op, lhs, rhs)]
    /\ UNCHANGED <<lhs, rhs, exceptAlgebra>>

\* lhs.isdisjoint(rhs)
ApplyIsDisjoint ==
    /\ out' = [op |-> "isdisjoint", value |-> CategoryIsDisjoint(lhs, rhs)]
    /\ UNCHANGED <<lhs, rhs, exceptAlgebra>>

\* an item that is not in the universe of the class
Outside == "X"

\* the lists a caller passes in place of a value: a list is known by the
\* items it holds, the only thing `item in items` reads of it
Iterables == SUBSET (ItemsOf(AlgebraUniverse) \cup {Outside})

\* lhs.issubset(other) for a list
ApplyIsSubset(other) ==
    /\ out' = [op |-> "issubset", other |-> other,
               value |-> CategoryIsSubset(AlgebraUniverse, lhs, other)]
    /\ UNCHANGED <<lhs, rhs, exceptAlgebra>>

\* lhs.issuperset(other) for a list
ApplyIsSuperset(other) ==
    /\ out' = [op |-> "issuperset", other |-> other,
               value |-> CategoryIsSuperset(AlgebraUniverse, lhs, other)]
    /\ UNCHANGED <<lhs, rhs, exceptAlgebra>>

NextAlgebra ==
    \/ \E op \in AlgebraOperators : ApplyOperator(op)
    \/ \E op \in OrderOperators : ApplyOrder(op)
    \/ ApplyIsDisjoint
    \/ \E other \in Iterables : ApplyIsSubset(other)
    \/ \E other \in Iterables : ApplyIsSuperset(other)

(***************************************************************************)
(* The variables of the other parts of the program before any call on     *)
(* them.                                                                   *)
(***************************************************************************)
IdleInterval ==
    /\ numberType = "none"
    /\ ia = <<>>
    /\ ib = <<>>
    /\ iout = [op |-> "none"]

IdleCascade == running = [op |-> "none"]

IdleMember == held = [kind |-> "none"]

(***************************************************************************)
(* The context: MemoryContext() and the calls of its owner.                *)
(***************************************************************************)
InitContext ==
    /\ model = <<>>
    /\ population = <<>>
    /\ last = [op |-> "MemoryContext", key |-> "", cls |-> "", names |-> <<>>,
               items |-> <<>>, existed |-> FALSE, exc |-> "none", created |-> 0]

Init ==
    /\ InitContext
    /\ InitPair
    /\ InitCategory
    /\ InitImprecise
    /\ IdleAlgebra
    /\ IdleInterval
    /\ IdleCascade
    /\ IdleMember

Next ==
    \/ \E name \in Names, cls \in Types : ModelSetItem(name, cls)
    \/ \E name \in Names : ModelDelItem(name)
    \/ \E identifier \in Identifiers, pv \in PartialValues :
            PopulationSetItem(identifier, pv)
    \/ \E identifier \in Identifiers : PopulationDelItem(identifier)
    \/ \E identifier \in Identifiers, name \in Names, val \in InputValues :
            IndividualSet(identifier, name, val)
    \/ \E identifier \in Identifiers, name \in Names :
            IndividualDel(identifier, name)
    \/ \E name \in Names, identifier \in Identifiers, val \in InputValues :
            AttributeSetItem(name, identifier, val)

Spec == Init /\ [][Next]_vars

\* the two contexts and the calls of their owners
SpecPair == Init /\ [][NextPair]_vars

\* the category classes and the calls that make and instantiate them
SpecCategory == Init /\ [][NextCategory]_vars

\* the imprecise category classes, their instances and their caches
SpecImprecise == Init /\ [][NextImprecise]_vars

\* the caller has chosen two values of the class Color
InitOperands ==
    /\ InitContext
    /\ InitPair
    /\ InitCategory
    /\ InitImprecise
    /\ lhs \in AlgebraValues
    /\ rhs \in AlgebraValues
    /\ out = [op |-> "none", value |-> <<>>]
    /\ IdleInterval
    /\ IdleCascade
    /\ IdleMember

\* the operators applied to every two values of one class
SpecAlgebra == InitOperands /\ [][NextAlgebra]_vars

(***************************************************************************)
(* MemoryContext(definition=..., individuals=...): the constructor, and    *)
(* the same arguments replayed call by call on an empty context.           *)
(***************************************************************************)
\* most entries of the definition and of the individuals handed to the
\* constructor
MaxDefinition == 2
MaxIndividuals == 2

\* the definitions: mappings from names to types, as their items in order
Definitions ==
    { d \in UNION { [1..n -> [name : Names, type : Types]]
                    : n \in 0..MaxDefinition } :
        \A i, j \in 1..Len(d) : d[i].name = d[j].name => i = j }

\* the individuals argument: absent, an iterable of identifiers or a
\* mapping from identifiers to partial values (its items in order)
IndividualsArguments ==
    { [kind |-> "None", entries |-> <<>>] }
    \cup { [kind |-> "Iterable", entries |-> l] :
             l \in UNION { [1..n -> Identifiers] : n \in 0..MaxIndividuals } }
    \cup { [kind |-> "Mapping", entries |-> im] :
             im \in { e \in UNION { [1..n -> [identifier : Identifiers,
                                             values : PartialValues]]
                                    : n \in 0..MaxIndividuals } :
                        \A i, j \in 1..Len(e) :
                            e[i].identifier = e[j].identifier => i = j } }

\* a model built with the attributes in the reverse order of the definition
MemoryModelInitReversed(definition) ==
    [i \in 1..Len(definition) |->
        [name |-> definition[Len(definition) + 1 - i].name,
         type |-> definition[Len(definition) + 1 - i].type]]

\* MemoryModel.__init__: one MemoryAttribute for each item of the definition
MemoryModelInit(definition) ==
    [i \in 1..Len(definition) |->
        [name |-> definition[i].name, type |-> definition[i].type]]

\* the identifier and the values the constructor hands to
\* MemoryPopulation.__setitem__ for entry i of the individuals
EntryIdentifier(individuals, i) ==
    IF individuals.kind = "Mapping"
    THEN individuals.entries[i].identifier
    ELSE individuals.entries[i]

EntryValues(individuals, i) ==
    IF individuals.kind = "Mapping"
    THEN individuals.entries[i].values
    ELSE <<>>

\* the loop of self.population[identifier] = values from entry i on
RECURSIVE SetIndividualsFrom(_, _, _, _)
SetIndividualsFrom(m, p, individuals, i) ==
    IF i > Len(individuals.entries)
    THEN [population |-> p, exc |-> "none"]
    ELSE LET r == PopulationSetItemResult(m, p,
                      EntryIdentifier(individuals, i),
                      EntryValues(individuals, i))
         IN  IF r.exc # "none"
             THEN r
             ELSE SetIndividualsFrom(m, r.population, individuals, i + 1)

\* MemoryContext.__init__: the model, the population and the exception
MemoryContextInitResult(definition, individuals) ==
    LET m == MemoryModelInit(definition)
        r == SetIndividualsFrom(m, <<>>, individuals, 1)
    IN  [model |-> m, population |-> r.population, exc |-> r.exc]

\* context.model[name] = cls for the items of the definition from item i on
RECURSIVE ReplayDefinitionFrom(_, _, _)
ReplayDefinitionFrom(m, definition, i) ==
    IF i > Len(definition)
    THEN [model |-> m, exc |-> "none"]
    ELSE LET r == ModelSetItemResult(m, <<>>, definition[i].name,
                                     definition[i].type)
         IN  IF r.exc # "none"
             THEN [model |-> r.model, exc |-> r.exc]
             ELSE ReplayDefinitionFrom(r.model, definition, i + 1)

\* context.population[identifier] = values for the entries from entry i on
RECURSIVE ReplayIndividualsFrom(_, _, _, _)
ReplayIndividualsFrom(m, p, individuals, i) ==
    IF i > Len(individuals.entries)
    THEN [population |-> p, exc |-> "none"]
    ELSE LET identifier == EntryIdentifier(individuals, i)
             pv == EntryValues(individuals, i)
             existed == identifier \in IdentifiersOf(p)
             p2 == IF existed THEN p ELSE Append(p, NewIndividual(m, identifier))
             k == IndexOfIdentifier(p2, identifier)
             r == ApplyFrom(m, p2[k].values, pv, 1)
             p3 == [p2 EXCEPT ![k].values = r.values]
         IN  IF r.exc # "none"
             THEN [population |-> p3, exc |-> r.exc]
             ELSE ReplayIndividualsFrom(m, p3, individuals, i + 1)

\* MemoryContext() followed by the calls, one for each item
ReplayResult(definition, individuals) ==
    LET d == ReplayDefinitionFrom(<<>>, definition, 1)
    IN  IF d.exc # "none"
        THEN [model |-> d.model, population |-> <<>>, exc |-> d.exc]
        ELSE LET r == ReplayIndividualsFrom(d.model, <<>>, individuals, 1)
             IN  [model |-> d.model, population |-> r.population,
                  exc |-> r.exc]

\* the caller has chosen the arguments of the constructor
InitArguments ==
    /\ model = <<>>
    /\ population = <<>>
    /\ \E d \in Definitions, a \in IndividualsArguments :
          last = [op |-> "arguments", definition |-> d, individuals |-> a,
                  exc |-> "none"]
    /\ InitPair
    /\ InitCategory
    /\ InitImprecise
    /\ IdleAlgebra
    /\ IdleInterval
    /\ IdleCascade
    /\ IdleMember

\* MemoryContext(definition=d, individuals=a)
MemoryContextInit ==
    /\ last.op = "arguments"
    /\ LET r == MemoryContextInitResult(last.definition, last.individuals)
       IN  /\ model' = r.model
           /\ population' = r.population
           /\ last' = [last EXCEPT !.op = "MemoryContext.__init__",
                                   !.exc = r.exc]
    /\ UNCHANGED exceptContext

NextInit == MemoryContextInit

SpecInit == InitArguments /\ [][NextInit]_vars

(***************************************************************************)
(* galactic.type.number: imprecise numbers.  A number is counted in halves *)
(* (3 stands for 1.5), so that float() keeps every value and int() drops   *)
(* the half towards zero.  An imprecise number is the pair of its bounds.  *)
(***************************************************************************)
\* the largest bound, in halves, a caller passes besides the defaults
MaxBound == 1

\* most arguments of one call of union() or intersection()
MaxOthers == 2

NumberTypes == {"ImpreciseFloat", "ImpreciseInteger"}

\* math.inf and sys.maxsize: a whole number above every other bound
Top == 2 * MaxBound

\* ImpreciseFloat.default_lower, ImpreciseInteger.default_lower
DefaultLower(T) == -Top

\* ImpreciseFloat.default_upper, ImpreciseInteger.default_upper
DefaultUpper(T) == Top

\* the bounds a caller passes: the values of the domain up to MaxBound and
\* its two limits
NumberInputs == (-MaxBound..MaxBound) \cup {-Top, Top}

\* a keyword argument that is passed, and one that is left out
Keyword(v) == [given |-> TRUE, value |-> v]
NotPassed == [given |-> FALSE, value |-> 0]

BoundArguments == {NotPassed} \cup { Keyword(v) : v \in NumberInputs }

\* ImpreciseFloat.convert: float(value); ImpreciseInteger.convert:
\* int(value)
Convert(T, v) ==
    IF T = "ImpreciseFloat" THEN v
    ELSE IF v >= 0 THEN 2 * (v \div 2) ELSE -(2 * ((-v) \div 2))

\* a constructor that compares the bounds it was given, then converts
NumberInitCompareFirst(T, lo, up) ==
    LET l == IF lo.given THEN lo.value ELSE DefaultLower(T)
        u == IF up.given THEN up.value ELSE DefaultUpper(T)
    IN  IF l > u THEN <<DefaultUpper(T), DefaultLower(T)>>
        ELSE <<Convert(T, l), Convert(T, u)>>

\* a constructor that puts bounds in the wrong order right
NumberInitSwapBounds(T, lo, up) ==
    LET l == IF lo.given THEN Convert(T, lo.value) ELSE DefaultLower(T)
        u == IF up.given THEN Convert(T, up.value) ELSE DefaultUpper(T)
    IN  IF l > u THEN <<u, l>> ELSE <<l, u>>

\* ImpreciseNumber.__init__(lower=lo, upper=up): the bounds of the value
NumberInit(T, lo, up) ==
    LET l == IF lo.given THEN Convert(T, lo.value) ELSE DefaultLower(T)
        u == IF up.given THEN Convert(T, up.value) ELSE DefaultUpper(T)
    IN  IF l > u THEN <<DefaultUpper(T), DefaultLower(T)>> ELSE <<l, u>>

Lower(a) == a[1]
Upper(a) == a[2]

Max(x, y) == IF x >= y THEN x ELSE y
Min(x, y) == IF x <= y THEN x ELSE y

\* an order that compares the lower bounds the other way round
NumberLeLowerReversed(a, b) == Lower(a) <= Lower(b) /\ Upper(a) <= Upper(b)

\* ImpreciseNumber.__le__, __eq__, __ne__, __lt__, __ge__, __gt__
NumberLe(a, b) == Lower(a) >= Lower(b) /\ Upper(a) <= Upper(b)
NumberEq(a, b) == Lower(a) = Lower(b) /\ Upper(a) = Upper(b)
NumberNe(a, b) == ~NumberEq(a, b)
NumberLt(a, b) == NumberLe(a, b) /\ NumberNe(a, b)
NumberGe(a, b) == Lower(a) <= Lower(b) /\ Upper(a) >= Upper(b)
NumberGt(a, b) == NumberGe(a, b) /\ NumberNe(a, b)

\* ImpreciseNumber.__and__
NumberAnd(T, a, b) ==
    NumberInit(T, Keyword(Max(Lower(a), Lower(b))),
                  Keyword(Min(Upper(a), Upper(b))))

\* a hull that takes the smaller of the upper bounds
NumberOrOfSmallest(T, a, b) ==
    NumberInit(T, Keyword(Min(Lower(a), Lower(b))),
                  Keyword(Min(Upper(a), Upper(b))))

\* ImpreciseNumber.__or__
NumberOr(T, a, b) ==
    NumberInit(T, Keyword(Min(Lower(a), Lower(b))),
                  Keyword(Max(Upper(a), Upper(b))))

\* ImpreciseNumber.isdisjoint
NumberIsDisjoint(a, b) == Upper(a) < Lower(b) \/ Lower(a) > Upper(b)

\* the loops of ImpreciseNumber.union and intersection from the i-th of
\* the others on
RECURSIVE UnionFrom(_, _, _, _)
UnionFrom(T, result, others, i) ==
    IF i > Len(others) THEN result
    ELSE UnionFrom(T, NumberOr(T, result, others[i]), others, i + 1)

RECURSIVE IntersectionFrom(_, _, _, _)
IntersectionFrom(T, result, others, i) ==
    IF i > Len(others) THEN result
    ELSE IntersectionFrom(T, NumberAnd(T, result, others[i]), others, i + 1)

\* ImpreciseNumber.union(*others), ImpreciseNumber.intersection(*others)
NumberUnion(T, a, others) == UnionFrom(T, a, others, 1)
NumberIntersection(T, a, others) == IntersectionFrom(T, a, others, 1)

NumberOrderResult(op, a, b) ==
    CASE op = "__le__" -> NumberLe(a, b)
      [] op = "__lt__" -> NumberLt(a, b)
      [] op = "__eq__" -> NumberEq(a, b)
      [] op = "__ne__" -> NumberNe(a, b)
      [] op = "__ge__" -> NumberGe(a, b)
      [] op = "__gt__" -> NumberGt(a, b)

\* the caller has chosen a class T and made a = T() and b = T()
InitInterval ==
    /\ InitContext
    /\ InitPair
    /\ InitCategory
    /\ InitImprecise
    /\ IdleAlgebra
    /\ IdleCascade
    /\ IdleMember
    /\ numberType \in NumberTypes
    /\ ia = NumberInit(numberType, NotPassed, NotPassed)
    /\ ib = NumberInit(numberType, NotPassed, NotPassed)
    /\ iout = [op |-> "none"]

\* a = T(lower=lo, upper=up) or b = T(lower=lo, upper=up), each keyword
\* passed or not
NumberNew(reg, lo, up) ==
    LET value == NumberInit(numberType, lo, up)
    IN  /\ ia' = IF reg = "a" THEN value ELSE ia
        /\ ib' = IF reg = "b" THEN value ELSE ib
        /\ iout' = [op |-> "__init__", reg |-> reg, lower |-> lo,
                    upper |-> up, value |-> value]
        /\ UNCHANGED <<numberType, exceptInterval>>

\* a & b
ApplyNumberAnd ==
    /\ iout' = [op |-> "__and__", value |-> NumberAnd(numberType, ia, ib)]
    /\ UNCHANGED <<numberType, ia, ib, exceptInterval>>

\* a | b
ApplyNumberOr ==
    /\ iout' = [op |-> "__or__", value |-> NumberOr(numberType, ia, ib)]
    /\ UNCHANGED <<numberType, ia, ib, exceptInterval>>

\* a <= b, a < b, a == b, a != b, a >= b, a > b
ApplyNumberOrder(op) ==
    /\ iout' = [op |-> op, value |-> NumberOrderResult(op, ia, ib)]
    /\ UNCHANGED <<numberType, ia, ib, exceptInterval>>

\* a.isdisjoint(b)
ApplyNumberIsDisjoint ==
    /\ iout' = [op |-> "isdisjoint", value |-> NumberIsDisjoint(ia, ib)]
    /\ UNCHANGED <<numberType, ia, ib, exceptInterval>>

\* the argument lists of union() and intersection(): a and b in any order
OthersLists == UNION { [1..n -> {ia, ib}] : n \in 0..MaxOthers }

\* a.union(*others)
ApplyNumberUnion(others) ==
    /\ iout' = [op |-> "union", others |-> others,
                value |-> NumberUnion(numberType, ia, others)]
    /\ UNCHANGED <<numberType, ia, ib, exceptInterval>>

\* a.intersection(*others)
ApplyNumberIntersection(others) ==
    /\ iout' = [op |-> "intersection", others |-> others,
                value |-> NumberIntersection(numberType, ia, others)]
    /\ UNCHANGED <<numberType, ia, ib, exceptInterval>>

ValueOperators == {"__and__", "__or__", "union", "intersection"}

\* a = result or b = result for the value the last call returned
NumberAssign(reg) ==
    /\ iout.op \in ValueOperators
    /\ ia' = IF reg = "a" THEN iout.value ELSE ia
    /\ ib' = IF reg = "b" THEN iout.value ELSE ib
    /\ iout' = [op |-> "assign", reg |-> reg, value |-> iout.value]
    /\ UNCHANGED <<numberType, exceptInterval>>

NextInterval ==
    \/ \E reg \in {"a", "b"}, lo, up \in BoundArguments :
            NumberNew(reg, lo, up)
    \/ ApplyNumberAnd
    \/ ApplyNumberOr
    \/ \E op \in OrderOperators : ApplyNumberOrder(op)
    \/ ApplyNumberIsDisjoint
    \/ \E others \in OthersLists : ApplyNumberUnion(others)
    \/ \E others \in OthersLists : ApplyNumberIntersection(others)
    \/ \E reg \in {"a", "b"} : NumberAssign(reg)

\* the imprecise numbers of one class and the calls on them
SpecInterval == InitInterval /\ [][NextInterval]_vars

(***************************************************************************)
(* MemoryModel.__setitem__ and __delitem__ step by step: the update of the *)
(* attributes, then one turn of the loop for each individual.  Between two *)
(* turns the types the model holds run (cls() and cls(value)) and see the  *)
(* context as it is.                                                       *)
(***************************************************************************)
\* super().__setitem__(name, MemoryAttribute(self, name, cls)) of
\* MemoryModel.__setitem__, or its return when the type is the same
CascadeSetItem(name, cls) ==
    /\ running.op = "none"
    /\ \/ name \in AttributeNames(model)
       \/ (Len(model) + 1) * Len(population) <= MaxCells
    /\ IF name \in AttributeNames(model) /\ TypeOf(model, name) = cls
       THEN /\ last' = [op |-> "Model.__setitem__", key |-> name,
                        cls |-> cls, names |-> <<>>, items |-> <<>>,
                        existed |-> TRUE, exc |-> "none", created |-> 0]
            /\ UNCHANGED <<model, running>>
       ELSE /\ model' = ReplaceAttribute(model, name, cls)
            /\ running' = [op |-> IF name \in AttributeNames(model)
                                  THEN "retype" ELSE "add",
                           name |-> name, cls |-> cls, next |-> 1]
            /\ last' = [op |-> "Model.__setitem__", key |-> name,
                        cls |-> cls, names |-> <<>>, items |-> <<>>,
                        existed |-> name \in AttributeNames(model),
                        exc |-> "none", created |-> 1]
    /\ UNCHANGED <<population, exceptCascade>>

\* super().__delitem__(name) of MemoryModel.__delitem__
CascadeDelItem(name) ==
    /\ running.op = "none"
    /\ IF name \notin AttributeNames(model)
       THEN /\ last' = [op |-> "Model.__delitem__", key |-> name, cls |-> "",
                        names |-> <<>>, items |-> <<>>, existed |-> FALSE,
                        exc |-> "KeyError", created |-> 0]
            /\ UNCHANGED <<model, running>>
       ELSE /\ model' = RemoveAt(model, IndexOfName(model, name))
            /\ running' = [op |-> "remove", name |-> name, cls |-> "",
                           next |-> 1]
            /\ last' = [op |-> "Model.__delitem__", key |-> name, cls |-> "",
                        names |-> <<>>, items |-> <<>>, existed |-> TRUE,
                        exc |-> "none", created |-> 0]
    /\ UNCHANGED <<population, exceptCascade>>

\* the body of the loop for one individual
CascadeOne(m, values, run) ==
    CASE run.op = "retype" -> RetypeOne(m, values, run.name, run.cls)
      [] run.op = "add" ->
            IndividualSetItem(m, values, run.name, Default(run.cls))
      [] run.op = "remove" -> IndividualDelItem(m, values, run.name)

\* one turn of `for identifier in self.population`; an exception that is
\* not caught ends the call
CascadeStep ==
    /\ running.op # "none"
    /\ running.next <= Len(population)
    /\ LET r == CascadeOne(model, population[running.next].values, running)
       IN  IF r.exc # "none"
           THEN /\ last' = [last EXCEPT !.exc = r.exc]
                /\ running' = [op |-> "none"]
                /\ UNCHANGED population
           ELSE /\ population' =
                       [population EXCEPT ![running.next].values = r.values]
                /\ running' = [running EXCEPT !.next = running.next + 1]
                /\ UNCHANGED last
    /\ UNCHANGED <<model, exceptCascade>>

\* the end of the loop: the call returns
CascadeReturn ==
    /\ running.op # "none"
    /\ running.next > Len(population)
    /\ running' = [op |-> "none"]
    /\ UNCHANGED <<model, population, last, exceptCascade>>

\* context.population[identifier] = values between two calls on the model
CascadePopulationSetItem(identifier, pv) ==
    /\ running.op = "none"
    /\ PopulationSetItem(identifier, pv)

NextCascade ==
    \/ \E name \in Names, cls \in Types : CascadeSetItem(name, cls)
    \/ \E name \in Names : CascadeDelItem(name)
    \/ CascadeStep
    \/ CascadeReturn
    \/ \E identifier \in Identifiers, pv \in PartialValues :
            CascadePopulationSetItem(identifier, pv)

\* one context and the calls on its model, seen step by step
SpecCascade == Init /\ [][NextCascade]_vars

(***************************************************************************)
(* Context.__contains__ on a reference the caller kept.  The reference     *)
(* names the object by its key and its context and remembers whether that  *)
(* object is still the one the population or the model holds under the     *)
(* key.                                                                    *)
(***************************************************************************)
\* element = contexts[c].population[identifier]
HoldIndividual(c, identifier) ==
    /\ identifier \in IdentifiersOf(contexts[c].population)
    /\ held' = [kind |-> "individual", key |-> identifier, context |-> c,
                current |-> TRUE]
    /\ UNCHANGED <<contexts, exceptMember>>

\* element = contexts[c].model[name]
HoldAttribute(c, name) ==
    /\ name \in AttributeNames(contexts[c].model)
    /\ held' = [kind |-> "attribute", key |-> name, context |-> c,
                current |-> TRUE]
    /\ UNCHANGED <<contexts, exceptMember>>

\* the reference after a call that took the object it names out of its
\* holder
Dropped(kind, c, key) ==
    IF held.kind = kind /\ held.context = c /\ held.key = key
    THEN [held EXCEPT !.current = FALSE]
    ELSE held

\* contexts[c].model[name] = cls: a new MemoryAttribute takes the place of
\* the one the model held under the name
MemberModelSetItem(c, name, cls) ==
    LET r == ModelSetItemResult(contexts[c].model, contexts[c].population,
                                name, cls)
    IN  /\ contexts' = [contexts EXCEPT ![c] =
                [model |-> r.model, population |-> r.population]]
        /\ held' = IF r.created > 0 THEN Dropped("attribute", c, name)
                   ELSE held
        /\ UNCHANGED exceptMember

\* del contexts[c].model[name]
MemberModelDelItem(c, name) ==
    LET r == ModelDelItemResult(contexts[c].model, contexts[c].population,
                                name)
    IN  /\ contexts' = [contexts EXCEPT ![c] =
                [model |-> r.model, population |-> r.population]]
        /\ held' = IF name \in AttributeNames(contexts[c].model)
                   THEN Dropped("attribute", c, name)
                   ELSE held
        /\ UNCHANGED exceptMember

\* contexts[c].population[identifier] = {}: an individual the population
\* holds already stays the same object
MemberPopulationSetItem(c, identifier) ==
    LET r == PopulationSetItemResult(contexts[c].model,
                                     contexts[c].population, identifier, <<>>)
    IN  /\ contexts' = [contexts EXCEPT ![c].population = r.population]
        /\ UNCHANGED <<held, exceptMember>>

\* del contexts[c].population[identifier]
MemberPopulationDelItem(c, identifier) ==
    LET r == PopulationDelItemResult(contexts[c].population, identifier)
    IN  /\ contexts' = [contexts EXCEPT ![c].population = r.population]
        /\ held' = IF identifier \in IdentifiersOf(contexts[c].population)
                   THEN Dropped("individual", c, identifier)
                   ELSE held
        /\ UNCHANGED exceptMember

\* Context.__contains__: element.context == self
Contains(c, element) == ContextEq(element.context, c)

NextMember ==
    \/ \E c \in ContextIds, identifier \in Identifiers :
            HoldIndividual(c, identifier)
    \/ \E c \in ContextIds, name \in Names : HoldAttribute(c, name)
    \/ \E c \in ContextIds, name \in Names, cls \in PairTypes :
            MemberModelSetItem(c, name, cls)
    \/ \E c \in ContextIds, name \in Names : MemberModelDelItem(c, name)
    \/ \E c \in ContextIds, identifier \in Identifiers :
            MemberPopulationSetItem(c, identifier)
    \/ \E c \in ContextIds, identifier \in Identifiers :
            MemberPopulationDelItem(c, identifier)

\* two contexts, the calls of their owners and a reference one of them kept
SpecMember == Init /\ [][NextMember]_vars

(***************************************************************************)
(* What a step was: the call recorded in last' and the state before it.    *)
(***************************************************************************)
\* the step is a call of MemoryModel.__setitem__ that changes the type of
\* an attribute of the model
IsRetype ==
    /\ last'.op = "Model.__setitem__"
    /\ last'.existed
    /\ TypeOf(model, last'.key) # last'.cls

\* the step is a call of MemoryModel.__setitem__ with the type the
\* attribute already has
IsSameType ==
    /\ last'.op = "Model.__setitem__"
    /\ last'.existed
    /\ TypeOf(model, last'.key) = last'.cls

\* the step is a call of MemoryModel.__setitem__ with a new name
IsAdd ==
    /\ last'.op = "Model.__setitem__"
    /\ ~last'.existed

\* the step is a call of MemoryPopulation.__setitem__ that raised
IsFailedSetIndividual ==
    /\ last'.op = "Population.__setitem__"
    /\ last'.exc # "none"

(***************************************************************************)
(* Invariants of the context                                               *)
(***************************************************************************)
\* C1 (I1): after every call, returned or raised, the names of the values
\* of every individual of the population are exactly the names of the
\* attributes of the model.
I1_ValueNamesMatchModel ==
    \A i \in 1..Len(population) :
        DOMAIN population[i].values = AttributeNames(model)

\* a failed MemoryPopulation.__setitem__ has returned and the population
\* holds an individual with the values of two attributes
I1_Witness ==
    /\ last.op = "Population.__setitem__"
    /\ last.exc # "none"
    /\ Len(model) = 2
    /\ Len(population) >= 1

\* C2 (I2): after every call, every value stored for an attribute is an
\* instance of the type the model currently gives to that attribute.
I2_ValuesHaveCurrentType ==
    \A i \in 1..Len(population) :
        \A n \in DOMAIN population[i].values \cap AttributeNames(model) :
            IsInstance(population[i].values[n], TypeOf(model, n))

(***************************************************************************)
(* MemoryPopulation.__setitem__ that raises                                *)
(***************************************************************************)
\* C3: a MemoryPopulation.__setitem__ that raises for an individual that
\* was in the population leaves every value of that individual as it was
\* before the call, the values of the items before the failing one included.
FailedSetIndividualKeepsValues ==
    [][ (IsFailedSetIndividual /\ last'.existed)
            => ValuesOf(population', last'.key) = ValuesOf(population, last'.key)
      ]_vars

\* C4: a MemoryPopulation.__setitem__ that raises for an identifier that
\* was not in the population leaves the population as it was: the
\* identifier is still absent, the identifiers, their order and all the
\* values are unchanged.
FailedSetIndividualAddsNothing ==
    [][ (IsFailedSetIndividual /\ ~last'.existed)
            => /\ last'.key \notin IdentifiersOf(population')
               /\ population' = population
      ]_vars

\* C7 (P4): MemoryPopulation.__setitem__(identifier, {badName: v}) for an
\* individual of the population and a name that is not an attribute of
\* the model raises KeyError, leaves the values of that individual (and of
\* all the others) as they were and adds no attribute to the model.
IsSetIndividualBadName ==
    /\ last'.op = "Population.__setitem__"
    /\ last'.existed
    /\ Len(last'.names) = 1
    /\ last'.names[1] \notin AttributeNames(model)

BadNameRaisesAndKeepsValues ==
    [][ IsSetIndividualBadName
            => /\ last'.exc = "KeyError"
               /\ population' = population
               /\ model' = model
               /\ last'.names[1] \notin AttributeNames(model')
      ]_vars

\* the call with the single unknown name has raised for an individual that
\* holds a value which is not the default of its attribute, so that the
\* individual was in the population with that value before the call
BadName_Witness ==
    /\ last.op = "Population.__setitem__"
    /\ last.existed
    /\ last.exc = "KeyError"
    /\ Len(last.names) = 1
    /\ last.names[1] \notin AttributeNames(model)
    /\ \E n \in AttributeNames(model) :
          ValuesOf(population, last.key)[n] # Default(TypeOf(model, n))

(***************************************************************************)
(* MemoryModel.__setitem__                                                 *)
(***************************************************************************)
\* C5 (P2): changing the type of an attribute never raises, whatever the
\* stored values are; every individual whose old value cannot be converted
\* ends with the default of the new type, and the loop reaches every
\* individual of the population.
RetypeNeverFails ==
    [][ IsRetype
            => /\ last'.exc = "none"
               /\ Len(population') = Len(population)
               /\ \A i \in 1..Len(population) :
                     Construct(last'.cls, population[i].values[last'.key]).exc
                            # "none"
                        => population'[i].values[last'.key] = Default(last'.cls)
      ]_vars

\* C6 (P3): MemoryModel.__setitem__(name, T) when name already has the type
\* T changes nothing: the model, its order and its attribute object (no
\* MemoryAttribute is created) and every value of every individual are
\* the ones before the call.
SameTypeIsNoOp ==
    [][ IsSameType
            => /\ model' = model
               /\ population' = population
               /\ last'.created = 0
               /\ last'.exc = "none"
      ]_vars

\* a same-type call has returned and an individual holds a value of that
\* attribute which is not the default of the type
SameType_Witness ==
    /\ last.op = "Model.__setitem__"
    /\ last.existed
    /\ last.created = 0
    /\ TypeOf(model, last.key) = last.cls
    /\ \E i \in 1..Len(population) :
          population[i].values[last.key] # Default(last.cls)

\* C8: after changing the type of an attribute, every individual whose old
\* value v can be converted holds cls(v) under the name, the attribute
\* keeps its place in the order of the model and the values of all the
\* other attributes are unchanged.
RetypeConverts ==
    [][ IsRetype
            => /\ Len(model') = Len(model)
               /\ model' = [model EXCEPT ![IndexOfName(model, last'.key)].type
                                              = last'.cls]
               /\ Len(population') = Len(population)
               /\ \A i \in 1..Len(population) :
                     LET old == population[i].values
                         new == population'[i].values
                         c == Construct(last'.cls, old[last'.key])
                     IN  /\ population'[i].identifier = population[i].identifier
                         /\ DOMAIN new = DOMAIN old
                         /\ c.exc = "none" => new[last'.key] = c.val
                         /\ \A n \in DOMAIN old \ {last'.key} : new[n] = old[n]
      ]_vars

\* C9: MemoryModel.__setitem__(name, T) with a new name appends the
\* attribute (name, T) to the model, gives every individual of the
\* population the default T() under name and leaves every other stored
\* value unchanged.
AddCascadesDefault ==
    [][ IsAdd
            => /\ last'.exc = "none"
               /\ last'.created = 1
               /\ model' = Append(model, [name |-> last'.key,
                                          type |-> last'.cls])
               /\ Len(population') = Len(population)
               /\ \A i \in 1..Len(population) :
                     /\ population'[i].identifier = population[i].identifier
                     /\ population'[i].values =
                            With(population[i].values, last'.key,
                                 Default(last'.cls))
                     /\ \A n \in DOMAIN population[i].values :
                            population'[i].values[n] = population[i].values[n]
      ]_vars

\* a second attribute has been added while an individual holds a value of
\* the first attribute which is not its default
Add_Witness ==
    /\ last.op = "Model.__setitem__"
    /\ ~last.existed
    /\ Len(model) = 2
    /\ model[2] = [name |-> last.key, type |-> last.cls]
    /\ \E i \in 1..Len(population) :
          /\ population[i].values[last.key] = Default(last.cls)
          /\ population[i].values[model[1].name] # Default(model[1].type)

(***************************************************************************)
(* MemoryModel.__delitem__                                                 *)
(***************************************************************************)
\* C10: MemoryModel.__delitem__(name) for a name of the model removes the
\* attribute from the model and the value from every individual, leaves
\* the other attributes and values unchanged, and individual[name] raises
\* KeyError afterwards; for a name that is not in the model it raises
\* KeyError and changes nothing.
RemoveAttributeCascades ==
    [][ last'.op = "Model.__delitem__"
            => IF last'.existed
               THEN /\ last'.exc = "none"
                    /\ model' = RemoveAt(model, IndexOfName(model, last'.key))
                    /\ Len(population') = Len(population)
                    /\ \A i \in 1..Len(population) :
                          /\ population'[i].identifier
                                = population[i].identifier
                          /\ population'[i].values
                                = Without(population[i].values, last'.key)
                          /\ IndividualGetItem(population'[i].values,
                                               last'.key).exc = "KeyError"
               ELSE /\ last'.exc = "KeyError"
                    /\ model' = model
                    /\ population' = population
      ]_vars

\* an attribute has been removed from a model of two attributes while an
\* individual holds a value of the other attribute which is not its default
Remove_Witness ==
    /\ last.op = "Model.__delitem__"
    /\ last.existed
    /\ last.exc = "none"
    /\ Len(model) = 1
    /\ last.key \notin AttributeNames(model)
    /\ \E i \in 1..Len(population) :
          /\ DOMAIN population[i].values = {model[1].name}
          /\ population[i].values[model[1].name] # Default(model[1].type)

(***************************************************************************)
(* Calls on one individual: del individual[name], individual[name] = value *)
(* and attribute[identifier] = value                                       *)
(***************************************************************************)
\* the step is del individual[name] for a name of the model
IsDeleteValueOfAttribute ==
    /\ last'.op = "Individual.__delitem__"
    /\ last'.names[1] \in AttributeNames(model)

\* some individual that is in the population before and after the step
\* has lost a name of its values
SomeValuesShrink ==
    \E id \in IdentifiersOf(population) \cap IdentifiersOf(population') :
        ~(DOMAIN ValuesOf(population, id)
            \subseteq DOMAIN ValuesOf(population', id))

\* C11: del individual[name] for a name that is an attribute of the model
\* always raises ValueError and leaves the values of the individual (and
\* the whole context) unchanged; the values of an individual of the
\* population lose a name only in a call of MemoryModel.__delitem__.
DeleteValueOfAttributeFails ==
    [][ /\ IsDeleteValueOfAttribute
            => /\ last'.exc = "ValueError"
               /\ population' = population
               /\ model' = model
        /\ SomeValuesShrink => last'.op = "Model.__delitem__"
      ]_vars

\* del individual[name] has raised ValueError for an attribute of which the
\* individual holds a value that is not the default
DeleteValue_Witness ==
    /\ last.op = "Individual.__delitem__"
    /\ last.exc = "ValueError"
    /\ last.names[1] \in AttributeNames(model)
    /\ ValuesOf(population, last.key)[last.names[1]]
          # Default(TypeOf(model, last.names[1]))

\* the step is individual[name] = value for a name the model does not have
IsSetValueBadName ==
    /\ last'.op = "Individual.__setitem__"
    /\ last'.names[1] \notin AttributeNames(model)

\* C12: individual[name] = value for a name that is not an attribute of the
\* model raises KeyError and creates no attribute: the model and the values
\* of every individual are the ones before the call.
SetValueBadNameRaises ==
    [][ IsSetValueBadName
            => /\ last'.exc = "KeyError"
               /\ model' = model
               /\ last'.names[1] \notin AttributeNames(model')
               /\ population' = population
               /\ \A i \in 1..Len(population') :
                     last'.names[1] \notin DOMAIN population'[i].values
      ]_vars

\* individual[name] = value has raised KeyError for an unknown name while
\* the individual holds a value, not the default, of an attribute
SetValueBadName_Witness ==
    /\ last.op = "Individual.__setitem__"
    /\ last.exc = "KeyError"
    /\ last.names[1] \notin AttributeNames(model)
    /\ \E n \in AttributeNames(model) :
          ValuesOf(population, last.key)[n] # Default(TypeOf(model, n))

\* the step is individual[name] = value or attribute[identifier] = value
\* for an individual of the population and an attribute of the model whose
\* type is bool or int
IsSetValue ==
    /\ last'.op \in {"Individual.__setitem__", "Attribute.__setitem__"}
    /\ last'.existed
    /\ last'.names[1] \in AttributeNames(model)
    /\ TypeOf(model, last'.names[1]) \in {"bool", "int"}

\* C13: individual[name] = value for an attribute of type T stores the
\* value as it is when it is an instance of T and stores T(value)
\* otherwise; when T(value) cannot be built the call raises ValueError and
\* the value stored before is unchanged; the same holds for
\* attribute[identifier] = value.
SetValueCoercesOrRaisesValueError ==
    [][ IsSetValue
            => LET name == last'.names[1]
                   val == last'.items[1].value
                   T == TypeOf(model, name)
                   i == IndexOfIdentifier(population, last'.key)
                   old == population[i].values
                   c == Construct(T, val)
               IN  /\ model' = model
                   /\ IsInstance(val, T)
                        => /\ last'.exc = "none"
                           /\ population' = [population EXCEPT
                                   ![i].values = With(old, name, val)]
                   /\ (~IsInstance(val, T) /\ c.exc = "none")
                        => /\ last'.exc = "none"
                           /\ population' = [population EXCEPT
                                   ![i].values = With(old, name, c.val)]
                   /\ (~IsInstance(val, T) /\ c.exc # "none")
                        => /\ last'.exc = "ValueError"
                           /\ population' = population
      ]_vars

(***************************************************************************)
(* MemoryPopulation.__setitem__ that returns                               *)
(***************************************************************************)
\* the value an attribute of type T holds after it was given val
Coerced(T, val) == IF IsInstance(val, T) THEN val ELSE Construct(T, val).val

\* the value given under a name in a sequence of items
Given(items, name) ==
    items[CHOOSE k \in 1..Len(items) : items[k].name = name].value

\* the values after the items were applied to the values old
Applied(m, old, items) ==
    [n \in AttributeNames(m) |->
        IF \E k \in 1..Len(items) : items[k].name = n
        THEN Coerced(TypeOf(m, n), Given(items, n))
        ELSE old[n]]

\* the step is a call of MemoryPopulation.__setitem__ that returned
IsSetIndividualDone ==
    /\ last'.op = "Population.__setitem__"
    /\ last'.exc = "none"

\* C14: a MemoryPopulation.__setitem__ that returns, for a new identifier,
\* appends an individual that holds the default of every attribute of the
\* model except the ones named in the items, which hold the coerced given
\* values; for an identifier of the population it changes only the values
\* named in the items, and the individual keeps its place.
SetIndividualCreatesOrUpdates ==
    [][ IsSetIndividualDone
            => /\ model' = model
               /\ IF last'.existed
                  THEN LET i == IndexOfIdentifier(population, last'.key)
                       IN  population' = [population EXCEPT ![i].values =
                               Applied(model, population[i].values, last'.items)]
                  ELSE population' = Append(population,
                          [identifier |-> last'.key,
                           values |-> Applied(model,
                               NewIndividual(model, last'.key).values,
                               last'.items)])
      ]_vars

\* the first of two individuals, which held a value that is not the default,
\* has been given a value that had to be converted
SetIndividual_Witness ==
    /\ last.op = "Population.__setitem__"
    /\ last.exc = "none"
    /\ last.existed
    /\ Len(population) = 2
    /\ population[1].identifier = last.key
    /\ Len(last.items) = 1
    /\ population[1].values[last.items[1].name] # last.items[1].value
    /\ population[1].values[last.items[1].name]
          # Default(TypeOf(model, last.items[1].name))

(***************************************************************************)
(* MemoryContext.__init__                                                  *)
(***************************************************************************)
\* C15: the constructor called with a definition and individuals ends as
\* an empty context does after model[name] = cls for each item of the
\* definition and population[identifier] = values for each entry of the
\* individuals ({} for each identifier of an iterable): the same exception
\* if any, the same attributes and order, the same identifiers and order
\* and the same values.
ConstructionIsReplay ==
    last.op = "MemoryContext.__init__"
        => LET r == ReplayResult(last.definition, last.individuals)
           IN  /\ last.exc = r.exc
               /\ last.exc = "none"
                    => /\ model = r.model
                       /\ population = r.population

\* the constructor has returned a context of two attributes and two
\* individuals, built from a mapping, that holds a converted value
Construction_Witness ==
    /\ last.op = "MemoryContext.__init__"
    /\ last.exc = "none"
    /\ last.individuals.kind = "Mapping"
    /\ Len(model) = 2
    /\ Len(population) = 2
    /\ \E n \in AttributeNames(model) :
          population[2].values[n] # Default(TypeOf(model, n))

(***************************************************************************)
(* Equality of the elements of two contexts                                *)
(***************************************************************************)
\* C16 (I3): two individuals are equal exactly when they have the same
\* identifier and belong to the same context, two attributes are equal
\* exactly when they have the same name and belong to the same context; an
\* element of one context is never equal to an element of the other, also
\* when the two contexts hold the same attributes and individuals.
I3_EqualityIsKeyAndContext ==
    \A c1, c2 \in ContextIds :
        /\ \A i \in 1..Len(contexts[c1].population),
              j \in 1..Len(contexts[c2].population) :
              LET x == IndividualOf(c1, i)
                  y == IndividualOf(c2, j)
              IN  /\ IndividualEq(x, y) <=> (c1 = c2 /\ i = j)
                  /\ c1 # c2 => ~IndividualEq(x, y)
        /\ \A i \in 1..Len(contexts[c1].model),
              j \in 1..Len(contexts[c2].model) :
              LET a == AttributeOf(c1, i)
                  b == AttributeOf(c2, j)
              IN  /\ AttributeEq(a, b) <=> (c1 = c2 /\ i = j)
                  /\ c1 # c2 => ~AttributeEq(a, b)

\* after calls on both, the two contexts hold the same two attributes and
\* the same two individuals
I3_Witness ==
    /\ contexts[1] = contexts[2]
    /\ Len(contexts[1].model) = 2
    /\ Len(contexts[1].population) = 2

(***************************************************************************)
(* Category.__new__                                                        *)
(***************************************************************************)
\* C17: for every class T made by category(), whatever classes were made
\* and instantiated before, T(v) for an item v of T returns an instance of
\* T whose item is v, T() returns the instance of T for the first item and
\* T(x) for any other x raises ValueError.
CategoryNewIsPerType ==
    returned.op = "Category.__new__"
        => LET u == categories[returned.cls]
           IN  IF returned.value \in ItemsOf(u)
               THEN /\ returned.exc = "none"
                    /\ returned.instance = [type |-> returned.cls,
                                            item |-> returned.value]
               ELSE IF returned.value = None
                    THEN /\ returned.exc = "none"
                         /\ returned.instance = [type |-> returned.cls,
                                                 item |-> u[1]]
                    ELSE returned.exc = "ValueError"

(***************************************************************************)
(* ImpreciseCategory: the caches of the classes                            *)
(***************************************************************************)
\* the step is a call that returned an object of a class without cache
IsUncachedResult ==
    /\ made'.op \in {"ImpreciseCategory.__new__"} \cup AlgebraOperators
    /\ made'.exc = "none"
    /\ ~declared[made'.type]

\* C18: after every call, two objects of a class with cache that have the
\* same bits are the same object; an entry of a cache is never replaced or
\* removed, and the cache of a class holds objects of that class only, under
\* their own bits; every call that returns an object of a class without
\* cache returns a new object, equal to the older objects of the same bits
\* by value only, and stores nothing.
InterningHolds ==
    [][ /\ \A i, j \in 1..Len(objects') :
              ( /\ objects'[i].type = objects'[j].type
                /\ declared'[objects'[i].type]
                /\ objects'[i].bits = objects'[j].bits ) => i = j
        /\ \A n \in DOMAIN caches :
              /\ n \in DOMAIN caches'
              /\ \A b \in DOMAIN caches[n] :
                    /\ b \in DOMAIN caches'[n]
                    /\ caches'[n][b] = caches[n][b]
        /\ \A n \in DOMAIN caches' :
              \A b \in DOMAIN caches'[n] :
                  objects'[caches'[n][b]] = [type |-> n, bits |-> b]
        /\ SubSeq(objects', 1, Len(objects)) = objects
        /\ IsUncachedResult
              => /\ made'.fresh
                 /\ made'.id = Len(objects) + 1
                 /\ Len(objects') = Len(objects) + 1
                 /\ DOMAIN caches'[made'.type] = {}
                 /\ \A k \in 1..Len(objects) :
                       ( /\ objects[k].type = made'.type
                         /\ objects[k].bits = objects'[made'.id].bits )
                          => /\ k # made'.id
                             /\ CategoryEq(objects'[k].bits,
                                           objects'[made'.id].bits)
      ]_vars

\* an operator of a class with cache has returned an object that existed,
\* while another class holds an object of its own with the same bits
Interning_Witness ==
    /\ made.op \in AlgebraOperators
    /\ made.exc = "none"
    /\ declared[made.type]
    /\ ~made.fresh
    /\ \E k \in 1..Len(objects) :
          /\ objects[k].type # made.type
          /\ objects[k].bits = objects[made.id].bits

(***************************************************************************)
(* ImpreciseCategory: the operators                                        *)
(***************************************************************************)
\* C19: for two values A and B of one class, A & B, A | B, A - B and A ^ B
\* are the values whose items are the intersection, the union, the
\* difference and the symmetric difference of the items of A and of B;
\* the operands are not modified.
AlgebraIsSetAlgebra ==
    [][ out'.op \in AlgebraOperators
            => LET A == Members(AlgebraUniverse, lhs)
                   B == Members(AlgebraUniverse, rhs)
                   R == Members(AlgebraUniverse, out'.value)
               IN  /\ Len(out'.value) = Len(AlgebraUniverse)
                   /\ out'.op = "__and__" => R = A \cap B
                   /\ out'.op = "__or__" => R = A \cup B
                   /\ out'.op = "__sub__" => R = A \ B
                   /\ out'.op = "__xor__" => R = (A \ B) \cup (B \ A)
                   /\ lhs' = lhs
                   /\ rhs' = rhs
      ]_vars

\* Color(['R', 'G']) & Color(['G', 'B']) has returned Color(['G'])
Algebra_Witness ==
    /\ out.op = "__and__"
    /\ Members(AlgebraUniverse, lhs) = {"R", "G"}
    /\ Members(AlgebraUniverse, rhs) = {"G", "B"}
    /\ Members(AlgebraUniverse, out.value) = {"G"}

\* C20: for two values A and B of one class, A <= B exactly when every item
\* of A is an item of B, A < B exactly when A <= B and A != B, A >= B
\* exactly when B <= A, and A <= B and B <= A hold together exactly when
\* A == B.
OrderIsInclusion ==
    out.op \in OrderOperators
        => LET A == Members(AlgebraUniverse, lhs)
               B == Members(AlgebraUniverse, rhs)
           IN  /\ out.op = "__le__" => (out.value <=> A \subseteq B)
               /\ out.op = "__lt__"
                    => /\ out.value <=> (A \subseteq B /\ A # B)
                       /\ out.value <=> ( /\ CategoryLe(lhs, rhs)
                                          /\ CategoryNe(lhs, rhs) )
               /\ out.op = "__ge__"
                    => /\ out.value <=> B \subseteq A
                       /\ out.value <=> CategoryLe(rhs, lhs)
               /\ out.op = "__eq__"
                    => /\ out.value <=> A = B
                       /\ out.value <=> ( /\ CategoryLe(lhs, rhs)
                                          /\ CategoryLe(rhs, lhs) )
               /\ out.op = "__ne__" => (out.value <=> A # B)

\* A <= B has returned true for two different values, A not the empty one
Order_Witness ==
    /\ out.op = "__le__"
    /\ out.value = TRUE
    /\ lhs # rhs
    /\ Members(AlgebraUniverse, lhs) # {}

(***************************************************************************)
(* C21: for all values A and B of one derived category type,               *)
(* A.isdisjoint(B) is true exactly when len(A & B) is 0, and it is the     *)
(* answer B.isdisjoint(A) gives.                                           *)
(***************************************************************************)
IsDisjointIsEmptyMeet ==
    out.op = "isdisjoint" =>
        /\ out.value <=> (CategoryLen(CategoryAnd(lhs, rhs)) = 0)
        /\ out.value <=> CategoryIsDisjoint(rhs, lhs)

\* a call that answered true on two values that are not empty
IsDisjoint_Witness ==
    /\ out.op = "isdisjoint"
    /\ out.value
    /\ CategoryLen(lhs) = 1
    /\ CategoryLen(rhs) = 2

(***************************************************************************)
(* C23: for every category value A and every list other,                   *)
(* A.issuperset(other) is true exactly when every element of other is a    *)
(* member of A, and A.issubset(other) exactly when every member of A is    *)
(* an element of other, whether or not other holds items outside the       *)
(* universe of the class.                                                  *)
(***************************************************************************)
SubsetAndSupersetOfIterable ==
    /\ out.op = "issuperset" =>
            (out.value <=> out.other \subseteq Members(AlgebraUniverse, lhs))
    /\ out.op = "issubset" =>
            (out.value <=> Members(AlgebraUniverse, lhs) \subseteq out.other)

(***************************************************************************)
(* C22: each of <=, <, ==, !=, >=, >, &, |, - and ^ applied to a category  *)
(* value and a right operand that is not a value of the same derived       *)
(* class, a value of another class over the same items included, raises    *)
(* TypeError, returns no value, creates no object and fills no cache.      *)
(***************************************************************************)
IsMismatchedOperand ==
    /\ made'.op \in AlgebraOperators \cup OrderOperators
    /\ made'.right # made'.type

MismatchedOperandRaisesTypeError ==
    [][IsMismatchedOperand =>
          /\ made'.exc = "TypeError"
          /\ made'.id = NoObject
          /\ made'.value = None
          /\ objects' = objects
          /\ caches' = caches]_vars

\* an operator that makes values got a value of another class although
\* its own class keeps a cache
MismatchedOperand_Witness ==
    /\ made.op = "__or__"
    /\ made.exc = "TypeError"
    /\ made.right \in DOMAIN declared
    /\ made.right # made.type
    /\ declared[made.type]

(***************************************************************************)
(* Imprecise numbers: the empty representation, the numbers an imprecise   *)
(* number holds, and the values a caller can construct.                    *)
(***************************************************************************)
EmptyNumber(T) == <<DefaultUpper(T), DefaultLower(T)>>

Points(a) == { q \in DefaultLower(numberType)..DefaultUpper(numberType) :
                 Lower(a) <= q /\ q <= Upper(a) }

NumberValues == { NumberInit(numberType, lo, up) : lo, up \in BoundArguments }

\* the bounds the constructor compares: converted, or the default
ConvertedLower(lo) ==
    IF lo.given THEN Convert(numberType, lo.value)
    ELSE DefaultLower(numberType)

ConvertedUpper(up) ==
    IF up.given THEN Convert(numberType, up.value)
    ELSE DefaultUpper(numberType)

(***************************************************************************)
(* C24: a bound that is left out takes the default of the class; when the  *)
(* converted lower bound is above the converted upper bound the value      *)
(* built is exactly (default_upper, default_lower); otherwise it keeps the *)
(* converted bounds.                                                       *)
(***************************************************************************)
ConstructionCanonicalizes ==
    iout.op = "__init__" =>
        LET l == ConvertedLower(iout.lower)
            u == ConvertedUpper(iout.upper)
            built == IF iout.reg = "a" THEN ia ELSE ib
        IN  /\ built = iout.value
            /\ l > u => /\ Lower(built) = DefaultUpper(numberType)
                        /\ Upper(built) = DefaultLower(numberType)
            /\ l <= u => /\ Lower(built) = l
                         /\ Upper(built) = u

\* an integer built from a lower bound with a half above the upper bound:
\* the bounds are in order once they are converted
Construction_Canonical_Witness ==
    /\ iout.op = "__init__"
    /\ numberType = "ImpreciseInteger"
    /\ iout.lower.given
    /\ iout.upper.given
    /\ iout.lower.value > iout.upper.value
    /\ iout.value # EmptyNumber(numberType)

(***************************************************************************)
(* C25: for all imprecise numbers A and B of one class, the empty          *)
(* representation and the full default interval included, A.isdisjoint(B)  *)
(* is true exactly when A & B is the empty imprecise number.               *)
(***************************************************************************)
NumberIsDisjointIsEmptyMeet ==
    iout.op = "isdisjoint" =>
        (iout.value <=> NumberAnd(numberType, ia, ib) = EmptyNumber(numberType))

(***************************************************************************)
(* C26: for all imprecise numbers A and B of one class, A <= B exactly     *)
(* when A.lower >= B.lower and A.upper <= B.upper, that is when B holds    *)
(* every number A holds; A < B is A <= B and A != B; A >= B is B <= A;     *)
(* A > B is B < A; == is equality of both bounds; <= is reflexive,         *)
(* antisymmetric and transitive.                                           *)
(***************************************************************************)
NumberOrderIsInclusion ==
    /\ iout.op = "__le__" =>
          /\ iout.value <=> (Lower(ia) >= Lower(ib) /\ Upper(ia) <= Upper(ib))
          /\ iout.value <=> Points(ia) \subseteq Points(ib)
          /\ ia = ib => iout.value
          /\ (iout.value /\ NumberLe(ib, ia)) => ia = ib
          /\ \A c \in NumberValues :
                (iout.value /\ NumberLe(ib, c)) => NumberLe(ia, c)
    /\ iout.op = "__lt__" =>
          (iout.value <=> (NumberLe(ia, ib) /\ ia # ib))
    /\ iout.op = "__ge__" => (iout.value <=> NumberLe(ib, ia))
    /\ iout.op = "__gt__" => (iout.value <=> NumberLt(ib, ia))
    /\ iout.op = "__eq__" => (iout.value <=> ia = ib)
    /\ iout.op = "__ne__" => (iout.value <=> ia # ib)

\* a <= b answered true for two values that differ and are not empty
NumberOrder_Witness ==
    /\ iout.op = "__le__"
    /\ iout.value
    /\ ia # ib
    /\ ia # EmptyNumber(numberType)
    /\ Lower(ib) > DefaultLower(numberType)

(***************************************************************************)
(* C27: A & B has the bounds (max(lowers), min(uppers)) and A | B the      *)
(* bounds (min(lowers), max(uppers)), both passed through construction;    *)
(* A.union(X1..Xn) and A.intersection(X1..Xn) are | and & folded from the  *)
(* left over the arguments starting from A, and are A without arguments.   *)
(***************************************************************************)
RECURSIVE FoldOr(_, _)
FoldOr(a, others) ==
    IF others = <<>> THEN a
    ELSE NumberOr(numberType,
                  FoldOr(a, SubSeq(others, 1, Len(others) - 1)),
                  others[Len(others)])

RECURSIVE FoldAnd(_, _)
FoldAnd(a, others) ==
    IF others = <<>> THEN a
    ELSE NumberAnd(numberType,
                   FoldAnd(a, SubSeq(others, 1, Len(others) - 1)),
                   others[Len(others)])

MeetHullAndFolds ==
    /\ iout.op = "__and__" =>
          LET l == Max(Lower(ia), Lower(ib))
              u == Min(Upper(ia), Upper(ib))
          IN  /\ iout.value = IF l > u THEN EmptyNumber(numberType)
                              ELSE <<l, u>>
              /\ Points(iout.value) = Points(ia) \cap Points(ib)
    /\ iout.op = "__or__" =>
          LET l == Min(Lower(ia), Lower(ib))
              u == Max(Upper(ia), Upper(ib))
          IN  /\ iout.value = IF l > u THEN EmptyNumber(numberType)
                              ELSE <<l, u>>
              /\ Points(ia) \cup Points(ib) \subseteq Points(iout.value)
    /\ iout.op = "union" =>
          /\ iout.value = FoldOr(ia, iout.others)
          /\ iout.others = <<>> => iout.value = ia
    /\ iout.op = "intersection" =>
          /\ iout.value = FoldAnd(ia, iout.others)
          /\ iout.others = <<>> => iout.value = ia

\* a union of two arguments whose hull is neither of the three values
MeetHull_Witness ==
    /\ iout.op = "union"
    /\ Len(iout.others) = 2
    /\ iout.others[1] # iout.others[2]
    /\ iout.value \notin {ia, ib, EmptyNumber(numberType)}
    /\ iout.value # NumberInit(numberType, NotPassed, NotPassed)

(***************************************************************************)
(* C30: every imprecise number built from bounds of the domain and by any  *)
(* sequence of &, |, union and intersection has lower <= upper or is       *)
(* exactly the empty representation E, and for every such A: E & A == E,   *)
(* E | A == A and E <= A.                                                  *)
(***************************************************************************)
IsCanonical(a) ==
    \/ Lower(a) <= Upper(a)
    \/ a = EmptyNumber(numberType)

NumbersStayCanonical ==
    /\ \A a \in {ia, ib} :
          /\ IsCanonical(a)
          /\ NumberAnd(numberType, EmptyNumber(numberType), a)
                = EmptyNumber(numberType)
          /\ NumberOr(numberType, EmptyNumber(numberType), a) = a
          /\ NumberLe(EmptyNumber(numberType), a)
    /\ iout.op \in ValueOperators \cup {"__init__", "assign"} =>
          IsCanonical(iout.value)

\* the empty representation came out of an intersection of values that
\* are not empty
NumbersCanonical_Witness ==
    /\ iout.op = "intersection"
    /\ Len(iout.others) = 2
    /\ iout.value = EmptyNumber(numberType)
    /\ ia # EmptyNumber(numberType)
    /\ ib # EmptyNumber(numberType)

(***************************************************************************)
(* C28: at every step inside MemoryModel.__setitem__ and __delitem__,      *)
(* between the update of the attributes of the model and the end of the    *)
(* loop over the individuals, the names of the values of every individual  *)
(* are the names of the attributes of the model.                           *)
(***************************************************************************)
I1_HoldsInsideMutation ==
    running.op # "none" =>
        \A i \in 1..Len(population) :
            DOMAIN population[i].values = AttributeNames(model)

(***************************************************************************)
(* C29: after any sequence of calls, `element in context` is true exactly  *)
(* when the element is an individual the population of that context holds  *)
(* now or an attribute its model holds now: not after the individual was   *)
(* deleted, not after the attribute was deleted or replaced by a new type, *)
(* and never for an element of another context.                            *)
(***************************************************************************)
MembershipIsCurrent ==
    held.kind # "none" =>
        \A c \in ContextIds :
            Contains(c, held) <=> (held.context = c /\ held.current)

====
